---- MODULE Spec2Model ----
(***************************************************************************)
(* Model of the telemetry context engine of apex-engineer                  *)
(* (src/src/telemetry/context_engine.py).                                  *)
(*                                                                         *)
(* A telemetry sample is a Python dict: it is modelled as a function whose *)
(* DOMAIN is the set of keys the dict carries, so `"k" in d` is            *)
(* "k" \in DOMAIN d.  Floats are modelled as integers of a fixed unit.     *)
(* Python's None is the integer None below (every real value is >= 0).     *)
(***************************************************************************)
EXTENDS Integers, Sequences, FiniteSets, TLC

\* ------------------------------------------------------------------ bounds
MaxHistorySize == 2
MaxUpdates == 4
MaxTime == 2
MaxQueries == 2
MaxKeyEvents == 4

\* ------------------------------------------------------- values and dicts
None == -1

EmptyDict == <<>>

Has(d, k) == k \in DOMAIN d

\* Python truthiness of a number-or-None: None and 0 are falsy.
Truthy(x) == x # None /\ x # 0

TireKeys == {"front_left", "front_right", "rear_left", "rear_right"}

\* ------------------------------------------------------- input universes
\* The samples update() is called with, one family per profile.  Each
\* family varies the fields one part of the engine reads; every family
\* holds the empty dict and a sample that lacks the family's field.  A
\* sample without "timestamp" is stamped by update() with the clock.
LapSamples ==
    {EmptyDict, [speed |-> 10]}
    \cup {[current_lap |-> l] : l \in {None, 1, 2}}

BestSamples ==
    {EmptyDict, [speed |-> 10]}
    \cup {[best_lap_time |-> b] : b \in {None, 0, 94, 95}}

DeltaSamples ==
    {EmptyDict,
     [speed |-> 0], [speed |-> 10],
     [speed |-> 10, fuel |-> 5],
     [fuel |-> 5, rpm |-> 6], [fuel |-> 7, rpm |-> 6],
     [speed |-> 0, fuel |-> 7, rpm |-> 9]}

FullTires(v) == [k \in TireKeys |-> IF k = "rear_right" THEN v ELSE 85]

TireSamples ==
    {EmptyDict, [speed |-> 10],
     [tire_temperatures |-> FullTires(85)],
     [tire_temperatures |-> FullTires(89)],
     [tire_temperatures |-> [k \in {"front_left"} |-> 85]],
     [tire_temperatures |-> EmptyDict]}

FuelSamples ==
    {EmptyDict, [speed |-> 10],
     [fuel |-> 44], [fuel |-> 45],
     [fuel |-> 44, timestamp |-> 0]}

\* the samples of the two-thread runs and of the object-identity runs
ThreadSamples ==
    {EmptyDict} \cup {[best_lap_time |-> b] : b \in {94, 95}}

AliasSamples ==
    {EmptyDict, [speed |-> 10], [tire_temperatures |-> FullTires(85)]}

\* what the telemetry reader hands to the main loop
AppSamples == {[speed |-> 10], [speed |-> 20]}

\* the samples of the summary runs: lap time against best lap
SummarySamples ==
    {EmptyDict, [speed |-> 10],
     [lap_time |-> 95, best_lap_time |-> 94],
     [lap_time |-> 93]}

\* the samples of the end-to-end runs: fuel and tire temperatures together
EndToEndSamples ==
    {[fuel |-> f, tire_temperatures |-> FullTires(85)] : f \in {43, 44, 45}}
    \cup {[fuel |-> 44], [tire_temperatures |-> FullTires(85)]}

\* samples with a few fields each, one of them with a null speed
PartialSamples ==
    {[speed |-> None],
     [gear |-> 3, position |-> 2],
     [lap_time |-> 95, best_lap_time |-> 94, fuel |-> 40]}

Profiles == {"lap", "best", "delta", "tire", "fuel"}

Samples(p) ==
    CASE p = "lap"   -> LapSamples
      [] p = "best"  -> BestSamples
      [] p = "delta" -> DeltaSamples
      [] p = "tire"  -> TireSamples
      [] p = "fuel"  -> FuelSamples
      [] p = "threads" -> ThreadSamples
      [] p = "alias" -> AliasSamples
      [] p = "summary" -> SummarySamples
      [] p = "partial" -> PartialSamples
      [] p = "reader" -> {EmptyDict}
      [] p = "voice" -> {EmptyDict}
      [] p = "e2e" -> EndToEndSamples
      [] p = "app" -> AppSamples
      [] p = "ai" -> {EmptyDict}

\* the capacities the engine is constructed with: the end-to-end runs need
\* room for three samples
Capacities(p) ==
    IF p = "e2e" THEN {MaxHistorySize + 1}
    ELSE IF p \in {"app", "ai", "voice"} THEN {MaxHistorySize}
    ELSE 0..MaxHistorySize

\* ------------------------------------------------------------------ state
VARIABLES
    profile,                 \* which input family this run draws from
    now,                     \* time.time()
    history_size,            \* self.history_size
    telemetry_history,       \* self.telemetry_history (deque)
    best_lap_time,           \* self.best_lap_time
    current_lap_start_time,  \* self.current_lap_start_time
    has_last_lap,            \* hasattr(self, "_last_lap")
    last_lap,                \* self._last_lap
    ctx,                     \* outcome of the last get_detailed_context()
    deltas,                  \* last _calculate_deltas() call: args and result
    calls,                   \* number of update() calls made
    ingested,                \* the non-empty samples passed to update(), stamped
    transitions,             \* the updates that ran line 48: <<index, value>>
    queries_since_update,    \* get_detailed_context() calls since the last
                             \* update() call, counted up to 2
    \* two threads: the main loop inside update(), a query thread inside
    \* get_detailed_context()
    upd_pc,                  \* main thread: "idle", "lap", "append"
    upd_telemetry,           \* main thread: the dict update() is working on
    upd_pre,                 \* history and best lap when that update() began
    qry_pc,                  \* query thread: "idle", "best", "rest"
    qry_current,             \* query thread: local `current` (line 114)
    qry_best,                \* query thread: self.best_lap_time as read (line 117)
    qry_allowed,             \* outcomes of the engine states between updates
                             \* that existed while the query ran
    qry_result,              \* outcome of the last query of the query thread
    \* object identity: dicts live on a heap and are held by reference
    heap,                    \* the dict objects, by id (index); a sample dict
                             \* holds the id of its tire_temperatures dict
    hist_refs,               \* ids of the dicts the deque holds
    caller_ref,              \* id of the dict the caller last passed to update()
    returned_ref,            \* id of context["current"] of the last returned
                             \* context (0: none)
    summary,                 \* outcome of the last get_context_summary()
    \* the application around the engine (main.py)
    polls,                   \* _update_telemetry() calls made by the main loop
    last_read,               \* what telemetry_reader.read() returned at the
                             \* last poll
    model_loaded,            \* GPT4AllClient.model is not None
    q_pc,                    \* query thread in _handle_user_query: "idle",
                             \* "context" (before line 152), "generate"
                             \* (inside generate_response, line 160)
    q_context,               \* query thread: local `context` (line 152)
    asked,                   \* non-empty queries received
    answered,                \* responses printed for the driver (line 165)
    q_outcome,               \* how the last query ended, and its response
    polls_in_call,           \* polls made during the generate_response() call
                             \* in progress, counted up to 1
    \* a language-model client applied to one query and one context
    ai,                      \* client, backend state, query, context, outcome
    \* the telemetry reader and the voice handler
    reader_connected,        \* AssettoCorsaReader.connected
    tts_enabled,             \* VoiceHandler.tts_enabled
    speak_calls,             \* speak() calls that have returned
    tts_running,             \* _speak_in_thread threads that have not finished
    spoken,                  \* texts whose playback has finished
    is_pressed,              \* PushToTalk.is_pressed
    callbacks,               \* the callbacks PushToTalk has invoked, in order
    kb_pc,                   \* keyboard hook thread: "idle", or "joining"
                             \* inside _stop_recording (line 91)
    is_recording,            \* VoiceHandler.is_recording
    recorders,               \* the _record_audio threads started: "recording",
                             \* "closing", "done"
    audio_queue,             \* VoiceHandler.audio_queue: the buffers, each
                             \* named by the recording thread that put it
    procs                    \* the _process_audio threads started: the
                             \* recording each was started for and what it took

engine == <<history_size, telemetry_history, best_lap_time,
            current_lap_start_time, has_last_lap, last_lap>>

threads == <<upd_pc, upd_telemetry, upd_pre, qry_pc, qry_current, qry_best,
             qry_allowed, qry_result>>

aliasing == <<heap, hist_refs, caller_ref, returned_ref>>

io == <<reader_connected, tts_enabled, speak_calls, tts_running, spoken,
        is_pressed, callbacks, kb_pc, is_recording, recorders, audio_queue,
        procs>>

\* the parts of io
speech == <<tts_enabled, speak_calls, tts_running, spoken>>

ptt == <<is_pressed, callbacks>>

recording == <<kb_pc, is_recording, recorders, audio_queue, procs>>

\* everything outside the reader and the voice handler
core == <<profile, now, engine, ctx, deltas, calls, ingested, transitions,
          queries_since_update, threads, aliasing, summary, ai>>

app == <<polls, last_read, model_loaded, q_pc, q_context, asked, answered,
         q_outcome, polls_in_call>>

vars == <<profile, now, history_size, telemetry_history, best_lap_time,
          current_lap_start_time, has_last_lap, last_lap, ctx, deltas,
          calls, ingested, transitions, queries_since_update, threads,
          aliasing, summary, app, ai, io>>

\* ------------------------------------------------------------ the deque
\* deque.append on a deque(maxlen=n): the new item goes on the right and,
\* when the deque was full, the leftmost item is discarded.
DequeAppend_NoEvict(d, x, maxlen) == Append(d, x)

DequeAppend_DropNewest(d, x, maxlen) ==
    IF Len(d) >= maxlen THEN d ELSE Append(d, x)

DequeAppend(d, x, maxlen) ==
    IF maxlen = 0 THEN d
    ELSE IF Len(d) >= maxlen THEN Tail(d) \o <<x>>
    ELSE Append(d, x)

\* deque[-k:] : collections.deque supports integer indices only; a slice
\* raises TypeError("sequence index must be integer, not 'slice'").
DequeSlice(d, k) == [raised |-> TRUE, value |-> <<>>]

\* ------------------------------------------------------------- update()
\* a stamp that overwrites the timestamp the sample came with
Stamp_Overwrite(telemetry, t) ==
    [k \in DOMAIN telemetry \cup {"timestamp"} |->
        IF k = "timestamp" THEN t ELSE telemetry[k]]

\* a normalisation that fills the missing numeric fields with zero
Stamp_FillDefaults(telemetry, t) ==
    (IF Has(telemetry, "timestamp") THEN telemetry
     ELSE telemetry @@ [timestamp |-> t])
    @@ [speed |-> 0, fuel |-> 0, best_lap_time |-> 0]

Stamp(telemetry, t) ==
    IF Has(telemetry, "timestamp") THEN telemetry
    ELSE telemetry @@ [timestamp |-> t]

BestLapAfter_KeepsWorst(best, telemetry) ==
    IF Has(telemetry, "best_lap_time") /\ Truthy(telemetry["best_lap_time"])
    THEN IF best = None \/ telemetry["best_lap_time"] > best
         THEN telemetry["best_lap_time"]
         ELSE best
    ELSE best

BestLapAfter(best, telemetry) ==
    IF Has(telemetry, "best_lap_time") /\ Truthy(telemetry["best_lap_time"])
    THEN IF best = None \/ telemetry["best_lap_time"] < best
         THEN telemetry["best_lap_time"]
         ELSE best
    ELSE best

LapChanged_NoFirstGuard(telemetry) ==
    /\ Has(telemetry, "current_lap")
    /\ telemetry["current_lap"] # last_lap

\* a lap tracker that takes every later sample with a lap for a new lap
LapChanged_AnyLapSample(telemetry) ==
    /\ Has(telemetry, "current_lap")
    /\ has_last_lap

LapChanged(telemetry) ==
    /\ Has(telemetry, "current_lap")
    /\ has_last_lap
    /\ telemetry["current_lap"] # last_lap

\* an update() without lines 31-32
Dropped_Never(sample) == FALSE

\* line 31: `if not telemetry: return`
Dropped_OutOfOrder(sample) ==
    \/ DOMAIN sample = {}
    \/ /\ telemetry_history # <<>>
       /\ Stamp(sample, now)["timestamp"]
            <= telemetry_history[Len(telemetry_history)]["timestamp"]

Dropped(sample) == DOMAIN sample = {}

\* update() on the engine's fields
UpdateEngine(sample) ==
    /\ calls < MaxUpdates
    /\ calls' = calls + 1
    /\ queries_since_update' = 0
    /\ ingested' = IF DOMAIN sample = {} THEN ingested
                   ELSE Append(ingested, Stamp(sample, now))
    /\ IF Dropped(sample)
       THEN UNCHANGED <<engine, transitions>>
       ELSE LET telemetry == Stamp(sample, now) IN
            /\ best_lap_time' = BestLapAfter(best_lap_time, telemetry)
            /\ current_lap_start_time' =
                  IF LapChanged(telemetry) THEN telemetry["timestamp"]
                  ELSE current_lap_start_time
            /\ has_last_lap' = (has_last_lap \/ Has(telemetry, "current_lap"))
            /\ last_lap' = IF Has(telemetry, "current_lap")
                           THEN telemetry["current_lap"] ELSE last_lap
            /\ telemetry_history' =
                  DequeAppend(telemetry_history, telemetry, history_size)
            /\ transitions' =
                  IF LapChanged(telemetry)
                  THEN Append(transitions,
                              <<Len(ingested) + 1, telemetry["timestamp"]>>)
                  ELSE transitions
            /\ UNCHANGED history_size
    /\ UNCHANGED <<profile, now, ctx, deltas>>

Update(sample) == UpdateEngine(sample) /\ UNCHANGED <<threads, aliasing, summary, app, ai, io>>

UpdateStep == \E sample \in Samples(profile) : Update(sample)

\* time passes between calls
Tick ==
    /\ now < MaxTime
    /\ now' = now + 1
    /\ UNCHANGED <<profile, engine, ctx, deltas, calls, ingested, transitions,
                   queries_since_update, threads, aliasing,
                   summary, app, ai, io>>

\* ------------------------------------------------- _calculate_deltas()
DeltaOf_ZeroDefault(previous, current, k) ==
    IF Has(previous, k) \/ Has(current, k)
    THEN (k :> ((IF Has(current, k) THEN current[k] ELSE 0)
                - (IF Has(previous, k) THEN previous[k] ELSE 0)))
    ELSE EmptyDict

DeltaOf(previous, current, k) ==
    IF Has(previous, k) /\ Has(current, k)
    THEN (k :> (current[k] - previous[k]))
    ELSE EmptyDict

CalculateDeltas(previous, current) ==
    DeltaOf(previous, current, "speed")
    @@ DeltaOf(previous, current, "fuel")
    @@ DeltaOf(previous, current, "rpm")

\* ------------------------------------------------ _analyze_performance()
RECURSIVE SumValues(_)
SumValues(f) ==
    IF DOMAIN f = {} THEN 0
    ELSE LET k == CHOOSE x \in DOMAIN f : TRUE
         IN f[k] + SumValues([x \in DOMAIN f \ {k} |-> f[x]])

\* sum(values) / len(values), kept as the fraction <<sum, len>>
TireAverage(t) ==
    <<SumValues(t["tire_temperatures"]), Cardinality(DOMAIN t["tire_temperatures"])>>

\* a > b for two fractions with positive denominators
FracGreater(a, b) == a[1] * b[2] > b[1] * a[2]

\* lines 153-160, given the window self.telemetry_history[-3:]
TireTrend(window) ==
    IF \A i \in 1..Len(window) : Has(window[i], "tire_temperatures")
    THEN IF \E i \in 1..Len(window) : DOMAIN window[i]["tire_temperatures"] = {}
         THEN [raised |-> TRUE, value |-> EmptyDict]       \* ZeroDivisionError
         ELSE IF Len(window) >= 2
              THEN [raised |-> FALSE,
                    value |-> [tire_temp_trend |->
                       IF FracGreater(TireAverage(window[Len(window)]),
                                      TireAverage(window[1]))
                       THEN "increasing" ELSE "decreasing"]]
              ELSE [raised |-> FALSE, value |-> EmptyDict]
    ELSE [raised |-> FALSE, value |-> EmptyDict]

\* lines 162-167, given the window self.telemetry_history[-5:]
FuelRate(window) ==
    IF /\ \A i \in 1..Len(window) : Has(window[i], "fuel")
       /\ Len(window) >= 2
    THEN [fuel_consumption_rate |-> window[1]["fuel"] - window[Len(window)]["fuel"]]
    ELSE EmptyDict

AnalyzePerformance(h) ==
    IF Len(h) < 2 THEN [raised |-> FALSE, value |-> EmptyDict]
    ELSE LET w3 == DequeSlice(h, 3)
             w5 == DequeSlice(h, 5)
         IN IF w3.raised THEN [raised |-> TRUE, value |-> EmptyDict]
            ELSE LET tire == TireTrend(w3.value)
                 IN IF tire.raised \/ w5.raised
                    THEN [raised |-> TRUE, value |-> EmptyDict]
                    ELSE [raised |-> FALSE,
                          value |-> tire.value @@ FuelRate(w5.value)]

\* ------------------------------------------------ get_detailed_context()
\* lines 115-129: the context built from the local `current`, the value
\* read from self.best_lap_time and the history
AssembleContext(current, best, h) ==
    LET base == [current |-> current,
                 best_lap_time |-> best,
                 history_size |-> Len(h)]
        withDeltas ==
            IF Len(h) > 1
            THEN base @@ [deltas |-> CalculateDeltas(h[Len(h) - 1], current)]
            ELSE base
        analysis == AnalyzePerformance(h)
    IN IF analysis.raised
       THEN [raised |-> TRUE, value |-> EmptyDict]
       ELSE [raised |-> FALSE,
             value |-> withDeltas @@ [analysis |-> analysis.value]]

\* lines 114-129: the context of a non-empty history
ContextOf(h, best) == AssembleContext(h[Len(h)], best, h)

\* without lines 111-112, self.telemetry_history[-1] raises IndexError
GetDetailedContext_NoEmptyCheck(h, best) ==
    IF Len(h) = 0 THEN [raised |-> TRUE, value |-> EmptyDict]
    ELSE ContextOf(h, best)

\* a context that also carries the time of the call
GetDetailedContext_Timestamped(h, best) ==
    IF Len(h) = 0 THEN [raised |-> FALSE, value |-> EmptyDict]
    ELSE LET c == ContextOf(h, best)
         IN [raised |-> c.raised, value |-> c.value @@ [generated_at |-> now]]

GetDetailedContext(h, best) ==
    IF Len(h) = 0 THEN [raised |-> FALSE, value |-> EmptyDict]
    ELSE ContextOf(h, best)

\* get_detailed_context() on the engine's fields
GetContextEngine ==
    /\ LET r == GetDetailedContext(telemetry_history, best_lap_time)
       IN ctx' = [called |-> TRUE, raised |-> r.raised, value |-> r.value,
                  history |-> telemetry_history]
    /\ deltas' =
          IF Len(telemetry_history) > 1
          THEN LET previous == telemetry_history[Len(telemetry_history) - 1]
                   current == telemetry_history[Len(telemetry_history)]
               IN [called |-> TRUE, previous |-> previous, current |-> current,
                   value |-> CalculateDeltas(previous, current)]
          ELSE deltas
    /\ queries_since_update' = IF queries_since_update = 0 THEN 1 ELSE 2
    /\ UNCHANGED <<profile, now, engine, calls, ingested, transitions>>

GetContext == GetContextEngine /\ UNCHANGED <<threads, aliasing, summary, app, ai, io>>

\* ------------------------------------------------ get_context_summary()
\* one part of the summary line: a label and the number rendered after it
Part(cond, label, v) ==
    IF cond THEN <<[label |-> label, value |-> v]>> ELSE <<>>

\* f"{x:.1f}" of None raises TypeError (lines 70 and 90)
SummaryRaises(current) ==
    \/ Has(current, "speed") /\ current["speed"] = None
    \/ Has(current, "fuel") /\ current["fuel"] = None

\* line 95: sum(temps.values()) / len(temps) if temps else 0
SummaryTireAverage(current) ==
    IF DOMAIN current["tire_temperatures"] = {} THEN <<0, 1>>
    ELSE TireAverage(current)

\* lines 64-102: the parts of the line, in the order they are appended
SummaryParts(current, best) ==
    LET lapShown == Has(current, "lap_time") /\ Truthy(current["lap_time"])
        delta == IF lapShown THEN current["lap_time"] - best ELSE 0
    IN Part(Has(current, "speed"), "Speed", current["speed"])
       \o Part(Has(current, "gear"), "Gear", current["gear"])
       \o Part(Has(current, "rpm"), "RPM", current["rpm"])
       \o Part(lapShown, "Current lap time", current["lap_time"])
       \o Part(Truthy(best), "Best lap time", best)
       \o Part(Truthy(best) /\ lapShown /\ delta > 0, "Delta: +", delta)
       \o Part(Truthy(best) /\ lapShown /\ delta <= 0, "Delta", delta)
       \o Part(Has(current, "fuel"), "Fuel", current["fuel"])
       \o Part(Has(current, "tire_temperatures"), "Avg tire temp",
               SummaryTireAverage(current))
       \o Part(Has(current, "position"), "Position", current["position"])

NoDataLine == <<[label |-> "No telemetry data available.", value |-> None]>>

SummaryOf(h, best) ==
    IF Len(h) = 0 THEN [raised |-> FALSE, value |-> NoDataLine]
    ELSE IF SummaryRaises(h[Len(h)]) THEN [raised |-> TRUE, value |-> <<>>]
    ELSE [raised |-> FALSE, value |-> SummaryParts(h[Len(h)], best)]

\* a summary that takes the sample it renders out of the history
GetContextSummary_Consuming ==
    /\ LET r == SummaryOf(telemetry_history, best_lap_time)
       IN summary' = [called |-> TRUE, raised |-> r.raised, value |-> r.value,
                      history |-> telemetry_history, best |-> best_lap_time]
    /\ telemetry_history' =
          IF telemetry_history = <<>> THEN telemetry_history
          ELSE SubSeq(telemetry_history, 1, Len(telemetry_history) - 1)
    /\ UNCHANGED <<profile, now, history_size, best_lap_time,
                   current_lap_start_time, has_last_lap, last_lap, ctx, deltas,
                   calls, ingested, transitions, queries_since_update,
                   threads, aliasing, app, ai, io>>

GetContextSummary ==
    /\ LET r == SummaryOf(telemetry_history, best_lap_time)
       IN summary' = [called |-> TRUE, raised |-> r.raised, value |-> r.value,
                      history |-> telemetry_history, best |-> best_lap_time]
    /\ UNCHANGED <<profile, now, engine, ctx, deltas, calls, ingested,
                   transitions, queries_since_update, threads, aliasing,
                   app, ai, io>>

\* ------------------------------------------- the language-model clients
\* GPT4AllClient and OllamaClient: _format_context, _build_prompt and
\* generate_response.  The state of the backend at the call:
\*   "unavailable"  GPT4All: self.model is None; Ollama: connection refused
\*   "fails"        GPT4All: model.generate raises; Ollama: timeout or an
\*                  HTTP error status (raise_for_status)
\*   "empty"        GPT4All: generate returns ""; Ollama: JSON without
\*                  "response"
\*   "ok"           the backend answers
Clients == {"gpt4all", "ollama"}

Backends == {"unavailable", "fails", "empty", "ok"}

Answer == "answer of the model"

\* the fallback messages, those of language "en" for GPT4AllClient
Fallback(client, backend) ==
    IF client = "gpt4all"
    THEN CASE backend = "unavailable" ->
                "Sorry, GPT4All model is not available. Please check installation."
           [] backend = "fails" ->
                "Technical issue, please repeat the question."
           [] OTHER -> "I couldn't generate a response."
    ELSE CASE backend \in {"unavailable", "fails"} ->
                "Sorry, I'm having trouble connecting to the AI model."
           [] OTHER -> "I couldn't generate a response."

Fallbacks == {Fallback(c, b) : c \in Clients, b \in Backends}

\* f"{current['speed']:.0f}" and f"{current['fuel']:.1f}" raise TypeError
\* on None
FormatRaises(context) ==
    LET current == context["current"]
    IN \/ Has(current, "speed") /\ current["speed"] = None
       \/ Has(current, "fuel") /\ current["fuel"] = None

\* context.get(k, {}) restricted to the keys the formatter renders
Rendered(context, k, keys) ==
    IF Has(context, k)
    THEN [x \in DOMAIN context[k] \cap keys |-> context[k][x]]
    ELSE EmptyDict

\* _format_context: the parts rendered, in order
FormatContext(client, context) ==
    LET current == context["current"]
        common ==
            Part(Has(current, "speed"), "speed", current["speed"])
            \o Part(Has(current, "rpm"), "rpm", current["rpm"])
            \o Part(Has(current, "gear"), "gear", current["gear"])
            \o Part(Has(current, "fuel"), "fuel", current["fuel"])
            \o Part(Has(current, "lap_time") /\ Truthy(current["lap_time"]),
                    "lap", current["lap_time"])
            \o Part(Has(context, "best_lap_time")
                      /\ Truthy(context["best_lap_time"]),
                    "best", context["best_lap_time"])
            \o Part(Has(current, "tire_temperatures"), "tires",
                    current["tire_temperatures"])
        deltaParts == Rendered(context, "deltas", {"speed", "rpm", "fuel"})
        analysisParts ==
            Rendered(context, "analysis",
                     {"tire_temp_trend", "fuel_consumption_rate"})
    IN IF client = "ollama" THEN common
       ELSE common
            \o Part(DOMAIN deltaParts # {}, "deltas", deltaParts)
            \o Part(DOMAIN analysisParts # {}, "analysis", analysisParts)
            \o Part(Has(current, "position"), "position", current["position"])

\* `if context and "current" in context`
HasCurrent(context) == DOMAIN context # {} /\ Has(context, "current")

\* a prompt that keeps the data section, left empty, when the context has
\* no current sample
BuildPrompt_Placeholders(client, query, context) ==
    IF HasCurrent(context)
    THEN IF FormatRaises(context)
         THEN [raised |-> TRUE, value |-> EmptyDict]
         ELSE [raised |-> FALSE,
               value |-> [system |-> client,
                          data |-> <<FormatContext(client, context)>>,
                          query |-> query]]
    ELSE [raised |-> FALSE,
          value |-> [system |-> client, data |-> << <<>> >>, query |-> query]]

\* _build_prompt: system prompt, the data section if any, the query
BuildPrompt(client, query, context) ==
    IF HasCurrent(context)
    THEN IF FormatRaises(context)
         THEN [raised |-> TRUE, value |-> EmptyDict]
         ELSE [raised |-> FALSE,
               value |-> [system |-> client,
                          data |-> <<FormatContext(client, context)>>,
                          query |-> query]]
    ELSE [raised |-> FALSE,
          value |-> [system |-> client, data |-> <<>>, query |-> query]]

\* what the call to the backend gives once the prompt is built
BackendReply(client, backend) ==
    IF backend = "ok" THEN Answer ELSE Fallback(client, backend)

\* OllamaClient builds the prompt before it enters its try block (line 49)
\* and GPT4AllClient after its availability test (line 112): what the
\* prompt raises leaves generate_response
GenerateResponse(client, backend, query, context) ==
    IF client = "gpt4all" /\ backend = "unavailable"
    THEN [raised |-> FALSE, value |-> Fallback(client, backend)]
    ELSE IF BuildPrompt(client, query, context).raised
         THEN [raised |-> TRUE, value |-> "raised"]
         ELSE [raised |-> FALSE, value |-> BackendReply(client, backend)]

\* ------------------------------------------------------- specification
InitCore(p) ==
    /\ profile = p
    /\ now = 0
    /\ history_size \in Capacities(p)
    /\ telemetry_history = <<>>
    /\ best_lap_time = None
    /\ current_lap_start_time = None
    /\ has_last_lap = FALSE
    /\ last_lap = None
    /\ ctx = [called |-> FALSE, raised |-> FALSE, value |-> EmptyDict,
              history |-> <<>>]
    /\ deltas = [called |-> FALSE, previous |-> EmptyDict,
                 current |-> EmptyDict, value |-> EmptyDict]
    /\ calls = 0
    /\ ingested = <<>>
    /\ transitions = <<>>
    /\ queries_since_update = 0
    /\ upd_pc = "idle"
    /\ upd_telemetry = EmptyDict
    /\ upd_pre = [history |-> <<>>, best |-> None]
    /\ qry_pc = "idle"
    /\ qry_current = EmptyDict
    /\ qry_best = None
    /\ qry_allowed = {}
    /\ qry_result = [done |-> FALSE, raised |-> FALSE, value |-> EmptyDict,
                     allowed |-> {}]
    /\ heap = <<>>
    /\ hist_refs = <<>>
    /\ caller_ref = 0
    /\ returned_ref = 0

NoClient == [client |-> "none"]

\* no summary asked for yet; the application idle; `loaded` tells whether
\* GPT4AllClient._initialize_model succeeded
InitOuter(loaded, client) ==
    /\ summary = [called |-> FALSE, raised |-> FALSE, value |-> <<>>,
                  history |-> <<>>, best |-> None]
    /\ polls = 0
    /\ last_read = [polled |-> FALSE, present |-> FALSE, sample |-> EmptyDict]
    /\ model_loaded = loaded
    /\ q_pc = "idle"
    /\ q_context = EmptyDict
    /\ asked = 0
    /\ answered = 0
    /\ q_outcome = [kind |-> "none", response |-> "none"]
    /\ polls_in_call = 0
    /\ ai = client

\* AssettoCorsaReader.__init__, VoiceHandler.__init__ and
\* PushToTalk.__init__; `tts` is the configured voice.tts_enabled
InitIO(tts) ==
    /\ reader_connected = FALSE
    /\ tts_enabled = tts
    /\ speak_calls = 0
    /\ tts_running = 0
    /\ spoken = 0
    /\ is_pressed = FALSE
    /\ callbacks = <<>>
    /\ kb_pc = "idle"
    /\ is_recording = FALSE
    /\ recorders = <<>>
    /\ audio_queue = <<>>
    /\ procs = <<>>

InitProfile(p) == InitCore(p) /\ InitOuter(TRUE, NoClient) /\ InitIO(FALSE)

Init == \E p \in Profiles : InitProfile(p)

InitLap == InitProfile("lap")

InitBest == InitProfile("best")

InitDelta == InitProfile("delta")

InitTire == InitProfile("tire")

InitFuel == InitProfile("fuel")

Next ==
    \/ UpdateStep
    \/ Tick
    \/ GetContext

Spec == Init /\ [][Next]_vars

SpecLap == InitLap /\ [][Next]_vars

SpecBest == InitBest /\ [][Next]_vars

SpecDelta == InitDelta /\ [][Next]_vars

SpecTire == InitTire /\ [][Next]_vars

SpecFuel == InitFuel /\ [][Next]_vars

InitEndToEnd == InitProfile("e2e")

SpecEndToEnd == InitEndToEnd /\ [][Next]_vars

\* the engine with both of its queries
InitSummary == InitProfile("summary")

NextSummary ==
    \/ UpdateStep
    \/ Tick
    \/ GetContext
    \/ GetContextSummary

SpecSummary == InitSummary /\ [][NextSummary]_vars

InitPartial == InitProfile("partial")

NextPartial ==
    \/ UpdateStep
    \/ Tick
    \/ GetContextSummary

SpecPartial == InitPartial /\ [][NextPartial]_vars

\* a client applied to one query and one context: the inputs are drawn at
\* the start, then _build_prompt and generate_response are applied
AISamples == {[speed |-> 10], [speed |-> None], [fuel |-> 44, rpm |-> 6]}

\* a context with deltas and analysis, as section 3 of the spec describes it
FullContext ==
    [current |-> [speed |-> 10, timestamp |-> 1],
     best_lap_time |-> 94,
     history_size |-> 2,
     deltas |-> [speed |-> 0],
     analysis |-> [tire_temp_trend |-> "increasing"]]

\* the empty context, the contexts the engine returns for one stored
\* sample, and the full one
AIContexts ==
    {EmptyDict, FullContext}
    \cup {GetDetailedContext(<<Stamp(sample, 0)>>, best).value :
             sample \in AISamples, best \in {None, 94}}

AIQueries == {"box this lap?", "fuel?"}

NotCalled == [called |-> FALSE]

AIInputs ==
    {[client |-> c, backend |-> b, query |-> q, context |-> x,
      prompt |-> NotCalled, response |-> NotCalled] :
        c \in Clients, b \in Backends, q \in AIQueries, x \in AIContexts}

AI_BuildPrompt ==
    /\ ~ai.prompt.called
    /\ LET r == BuildPrompt(ai.client, ai.query, ai.context)
       IN ai' = [ai EXCEPT !.prompt = [called |-> TRUE, raised |-> r.raised,
                                       value |-> r.value]]
    /\ UNCHANGED <<profile, now, engine, ctx, deltas, calls, ingested,
                   transitions, queries_since_update, threads, aliasing,
                   summary, app, io>>

AI_GenerateResponse ==
    /\ ~ai.response.called
    /\ LET r == GenerateResponse(ai.client, ai.backend, ai.query, ai.context)
       IN ai' = [ai EXCEPT !.response = [called |-> TRUE, raised |-> r.raised,
                                         value |-> r.value]]
    /\ UNCHANGED <<profile, now, engine, ctx, deltas, calls, ingested,
                   transitions, queries_since_update, threads, aliasing,
                   summary, app, io>>

InitAI ==
    \E client \in AIInputs :
        /\ InitCore("ai")
        /\ InitOuter(TRUE, client)
        /\ InitIO(FALSE)

NextAI ==
    \/ AI_BuildPrompt
    \/ AI_GenerateResponse

SpecAI == InitAI /\ [][NextAI]_vars

\* ------------------------------------------------------- two threads
\* ApexEngineer._main_loop calls update() on the main thread while
\* VoiceHandler._process_audio, on its own thread, calls
\* _handle_user_query -> get_detailed_context().  No lock is taken by
\* either, so the threads interleave between the statements below.

\* the engine state an update() of `telemetry` leaves behind
AfterUpdate(pre, telemetry) ==
    [history |-> DequeAppend(pre.history, telemetry, history_size),
     best |-> BestLapAfter(pre.best, telemetry)]

Outcome(state) == GetDetailedContext(state.history, state.best)

\* lines 31-41: drop test, stamp, best lap
T_UpdateBegin(sample) ==
    /\ upd_pc = "idle"
    /\ calls < MaxUpdates
    /\ calls' = calls + 1
    /\ queries_since_update' = 0
    /\ IF Dropped(sample)
       THEN UNCHANGED <<best_lap_time, ingested, upd_pc, upd_telemetry,
                        upd_pre, qry_allowed>>
       ELSE LET telemetry == Stamp(sample, now)
                pre == [history |-> telemetry_history, best |-> best_lap_time]
            IN /\ best_lap_time' = BestLapAfter(best_lap_time, telemetry)
               /\ ingested' = Append(ingested, telemetry)
               /\ upd_pc' = "lap"
               /\ upd_telemetry' = telemetry
               /\ upd_pre' = pre
               /\ qry_allowed' =
                     IF qry_pc = "idle" THEN qry_allowed
                     ELSE qry_allowed \cup {Outcome(AfterUpdate(pre, telemetry))}
    /\ UNCHANGED <<profile, now, history_size, telemetry_history,
                   current_lap_start_time, has_last_lap, last_lap, ctx, deltas,
                   transitions, qry_pc, qry_current, qry_best, qry_result,
                   aliasing, summary, app, ai, io>>

T_UpdateBeginStep == \E sample \in Samples(profile) : T_UpdateBegin(sample)

\* lines 43-49: lap tracking
T_UpdateLap ==
    /\ upd_pc = "lap"
    /\ current_lap_start_time' =
          IF LapChanged(upd_telemetry) THEN upd_telemetry["timestamp"]
          ELSE current_lap_start_time
    /\ has_last_lap' = (has_last_lap \/ Has(upd_telemetry, "current_lap"))
    /\ last_lap' = IF Has(upd_telemetry, "current_lap")
                   THEN upd_telemetry["current_lap"] ELSE last_lap
    /\ transitions' =
          IF LapChanged(upd_telemetry)
          THEN Append(transitions, <<Len(ingested), upd_telemetry["timestamp"]>>)
          ELSE transitions
    /\ upd_pc' = "append"
    /\ UNCHANGED <<profile, now, history_size, telemetry_history, best_lap_time,
                   ctx, deltas, calls, ingested, queries_since_update,
                   upd_telemetry, upd_pre, qry_pc, qry_current, qry_best,
                   qry_allowed, qry_result,
                   aliasing, summary, app, ai, io>>

\* line 52: self.telemetry_history.append(telemetry.copy())
T_UpdateAppend ==
    /\ upd_pc = "append"
    /\ telemetry_history' =
          DequeAppend(telemetry_history, upd_telemetry, history_size)
    /\ upd_pc' = "idle"
    /\ upd_telemetry' = EmptyDict
    /\ UNCHANGED <<profile, now, history_size, best_lap_time,
                   current_lap_start_time, has_last_lap, last_lap, ctx, deltas,
                   calls, ingested, transitions, queries_since_update,
                   upd_pre, qry_pc, qry_current, qry_best, qry_allowed,
                   qry_result,
                   aliasing, summary, app, ai, io>>

\* the engine states between updates that exist at this moment: the
\* current one, or the ones before and after the update() in progress
StatesNow ==
    IF upd_pc = "idle"
    THEN {[history |-> telemetry_history, best |-> best_lap_time]}
    ELSE {upd_pre, AfterUpdate(upd_pre, upd_telemetry)}

\* lines 111-114: empty test, current = self.telemetry_history[-1]
T_QueryStart ==
    /\ qry_pc = "idle"
    /\ LET allowed == {Outcome(st) : st \in StatesNow}
       IN IF telemetry_history = <<>>
          THEN /\ qry_result' = [done |-> TRUE, raised |-> FALSE,
                                 value |-> EmptyDict, allowed |-> allowed]
               /\ UNCHANGED <<qry_pc, qry_current, qry_allowed>>
          ELSE /\ qry_current' = telemetry_history[Len(telemetry_history)]
               /\ qry_pc' = "best"
               /\ qry_allowed' = allowed
               /\ UNCHANGED qry_result
    /\ UNCHANGED <<profile, now, engine, ctx, deltas, calls, ingested,
                   transitions, queries_since_update, upd_pc, upd_telemetry,
                   upd_pre, qry_best,
                   aliasing, summary, app, ai, io>>

\* line 117: "best_lap_time": self.best_lap_time
T_QueryBest ==
    /\ qry_pc = "best"
    /\ qry_best' = best_lap_time
    /\ qry_pc' = "rest"
    /\ UNCHANGED <<profile, now, engine, ctx, deltas, calls, ingested,
                   transitions, queries_since_update, upd_pc, upd_telemetry,
                   upd_pre, qry_current, qry_allowed, qry_result,
                   aliasing, summary, app, ai, io>>

\* lines 118-129: history_size, deltas, analysis, return
T_QueryFinish ==
    /\ qry_pc = "rest"
    /\ LET r == AssembleContext(qry_current, qry_best, telemetry_history)
       IN qry_result' = [done |-> TRUE, raised |-> r.raised, value |-> r.value,
                         allowed |-> qry_allowed]
    /\ qry_pc' = "idle"
    /\ UNCHANGED <<profile, now, engine, ctx, deltas, calls, ingested,
                   transitions, queries_since_update, upd_pc, upd_telemetry,
                   upd_pre, qry_current, qry_best, qry_allowed,
                   aliasing, summary, app, ai, io>>

InitThreads == InitProfile("threads")

NextThreads ==
    \/ T_UpdateBeginStep
    \/ T_UpdateLap
    \/ T_UpdateAppend
    \/ T_QueryStart
    \/ T_QueryBest
    \/ T_QueryFinish

SpecThreads == InitThreads /\ [][NextThreads]_vars

\* ----------------------------------------------------- object identity
\* The caller passes a dict object to update(); update() stamps that
\* object (line 36) and appends telemetry.copy() (line 52), a new dict
\* object whose values are the same objects: the nested tire_temperatures
\* dict is shared.  get_detailed_context() puts self.telemetry_history[-1],
\* the stored object itself, into the context (lines 114-116).
IsSampleWithTires(d) == Has(d, "tire_temperatures")

\* the value of the dict object `id` of heap hp, nested dict included
DerefIn(hp, id) ==
    LET d == hp[id]
    IN IF IsSampleWithTires(d)
       THEN [k \in DOMAIN d |->
               IF k = "tire_temperatures" THEN hp[d[k]] ELSE d[k]]
       ELSE d

HistoryValue(hp, refs) == [i \in 1..Len(refs) |-> DerefIn(hp, refs[i])]

\* the dicts a caller allocates for `sample`, then the stamped caller dict
\* and its copy: <<new heap, caller id, copy id>>
Allocate(sample) ==
    LET withTires == Has(sample, "tire_temperatures")
        tireId == Len(heap) + 1
        h1 == IF withTires THEN Append(heap, sample["tire_temperatures"])
              ELSE heap
        callerDict ==
            IF withTires
            THEN [k \in DOMAIN sample |->
                    IF k = "tire_temperatures" THEN tireId ELSE sample[k]]
            ELSE sample
        stamped == IF Dropped(sample) THEN callerDict
                   ELSE Stamp(callerDict, now)
        h2 == Append(h1, stamped)
        callerId == Len(h2)
        h3 == IF Dropped(sample) THEN h2 ELSE Append(h2, stamped)
    IN <<h3, callerId, Len(h3)>>

A_Update(sample) ==
    /\ UpdateEngine(sample)
    /\ LET a == Allocate(sample)
       IN /\ heap' = a[1]
          /\ caller_ref' = a[2]
          /\ hist_refs' = IF Dropped(sample) THEN hist_refs
                          ELSE DequeAppend(hist_refs, a[3], history_size)
    /\ UNCHANGED <<returned_ref, threads, summary, app, ai, io>>

A_UpdateStep == \E sample \in Samples(profile) : A_Update(sample)

A_GetContext ==
    /\ GetContextEngine
    /\ returned_ref' =
          IF hist_refs # <<>>
             /\ ~GetDetailedContext(telemetry_history, best_lap_time).raised
          THEN hist_refs[Len(hist_refs)]
          ELSE returned_ref
    /\ UNCHANGED <<heap, hist_refs, caller_ref, threads, summary, app, ai, io>>

SetKey(d, k, v) == [x \in DOMAIN d \cup {k} |-> IF x = k THEN v ELSE d[x]]

\* after an assignment through a reference the history holds what the
\* stored objects now hold
Assign(id, k, v) ==
    /\ heap' = [heap EXCEPT ![id] = SetKey(heap[id], k, v)]
    /\ telemetry_history' = HistoryValue(heap', hist_refs)
    /\ UNCHANGED <<profile, now, history_size, best_lap_time,
                   current_lap_start_time, has_last_lap, last_lap, ctx, deltas,
                   calls, ingested, transitions, queries_since_update,
                   hist_refs, caller_ref, returned_ref, threads,
                   summary, app, ai, io>>

\* the caller, after update(sample): sample["speed"] = 99
A_CallerSetsField ==
    /\ caller_ref # 0
    /\ Assign(caller_ref, "speed", 99)

\* the caller, after update(sample): sample["tire_temperatures"]["front_left"] = 99
A_CallerSetsTire ==
    /\ caller_ref # 0
    /\ IsSampleWithTires(heap[caller_ref])
    /\ Assign(heap[caller_ref]["tire_temperatures"], "front_left", 99)

\* the holder of a returned context: context["current"]["speed"] = 99
A_ConsumerSetsField ==
    /\ returned_ref # 0
    /\ Assign(returned_ref, "speed", 99)

InitAlias == InitProfile("alias")

NextAlias ==
    \/ A_UpdateStep
    \/ A_GetContext
    \/ A_CallerSetsField
    \/ A_CallerSetsTire
    \/ A_ConsumerSetsField

SpecAlias == InitAlias /\ [][NextAlias]_vars

\* ---------------------------------------------------- the application
\* ApexEngineer (main.py): the main loop polls the telemetry reader and
\* calls update(); VoiceHandler._stop_recording starts a thread for
\* _process_audio, which calls _handle_user_query with the transcription.
\* The application builds ContextEngine() and a GPT4AllClient.

\* telemetry_reader.read(): a sample, or None
Absent == [present |-> FALSE, sample |-> EmptyDict]

Present(sample) == [present |-> TRUE, sample |-> sample]

Reads == {Absent} \cup {Present(sample) : sample \in AppSamples}

\* a main loop that passes whatever read() returned on to update()
ReadTruthy_Always(r) == TRUE

\* main.py line 133: `if telemetry:`
ReadTruthy(r) == r.present /\ DOMAIN r.sample # {}

\* a main loop that handles the query itself and polls again afterwards
MainLoopCanPoll_WaitsForQuery == polls < MaxUpdates /\ q_pc = "idle"

\* main.py lines 116-121: the loop polls whenever a poll is due; it waits
\* for nothing else
MainLoopCanPoll == polls < MaxUpdates

\* _update_telemetry(), one poll of the main loop
UpdateTelemetry(r) ==
    /\ MainLoopCanPoll
    /\ polls' = polls + 1
    /\ last_read' = [polled |-> TRUE, present |-> r.present, sample |-> r.sample]
    /\ polls_in_call' = IF q_pc = "generate" THEN 1 ELSE polls_in_call
    /\ IF ReadTruthy(r)
       THEN UpdateEngine(r.sample)
       ELSE UNCHANGED <<profile, now, engine, ctx, deltas, calls, ingested,
                        transitions, queries_since_update>>
    /\ UNCHANGED <<model_loaded, q_pc, q_context, asked, answered, q_outcome,
                   threads, aliasing, summary, ai, io>>

UpdateTelemetryStep == \E r \in Reads : UpdateTelemetry(r)

Transcriptions == {"", "fuel?"}

\* _handle_user_query lines 143-148, on the thread _stop_recording started
QueryReceived(query) ==
    /\ q_pc = "idle"
    /\ asked < MaxQueries
    /\ IF query = ""
       THEN UNCHANGED <<q_pc, asked>>
       ELSE /\ q_pc' = "context"
            /\ asked' = asked + 1
    /\ UNCHANGED <<profile, now, engine, ctx, deltas, calls, ingested,
                   transitions, queries_since_update, polls, last_read,
                   model_loaded, q_context, answered, q_outcome, polls_in_call,
                   threads, aliasing, summary, ai, io>>

QueryReceivedStep == \E query \in Transcriptions : QueryReceived(query)

\* what _process_audio does with an exception of the callback
\* (voice_handler.py lines 162-166): it is logged, the thread ends
CallbackError == [kind |-> "callback_error", response |-> "none"]

\* line 152: context = self.context_engine.get_detailed_context()
QueryGetContext ==
    /\ q_pc = "context"
    /\ LET r == GetDetailedContext(telemetry_history, best_lap_time)
       IN IF r.raised
          THEN /\ q_pc' = "idle"
               /\ q_outcome' = CallbackError
               /\ UNCHANGED <<q_context, polls_in_call>>
          ELSE /\ q_pc' = "generate"
               /\ q_context' = r.value
               /\ polls_in_call' = 0
               /\ UNCHANGED q_outcome
    /\ UNCHANGED <<profile, now, engine, ctx, deltas, calls, ingested,
                   transitions, queries_since_update, polls, last_read,
                   model_loaded, asked, answered, threads, aliasing,
                   summary, ai, io>>

\* lines 160-165: the generate_response call returns, the response is
\* printed for the driver
QueryRespond(backend) ==
    /\ q_pc = "generate"
    /\ backend = "unavailable" <=> ~model_loaded
    /\ LET r == GenerateResponse("gpt4all", backend, "fuel?", q_context)
       IN IF r.raised
          THEN /\ q_outcome' = CallbackError
               /\ UNCHANGED answered
          ELSE /\ q_outcome' = [kind |-> "response", response |-> r.value]
               /\ answered' = answered + 1
    /\ q_pc' = "idle"
    /\ UNCHANGED <<profile, now, engine, ctx, deltas, calls, ingested,
                   transitions, queries_since_update, polls, last_read,
                   model_loaded, q_context, asked, polls_in_call, threads,
                   aliasing, summary, ai, io>>

QueryRespondStep == \E backend \in Backends : QueryRespond(backend)

InitApp ==
    \E loaded \in BOOLEAN :
        InitCore("app") /\ InitOuter(loaded, NoClient) /\ InitIO(FALSE)

NextApp ==
    \/ UpdateTelemetryStep
    \/ QueryReceivedStep
    \/ QueryGetContext
    \/ QueryRespondStep

SpecApp == InitApp /\ [][NextApp]_vars

\* the query thread, once started, runs to its end
SpecAppLive ==
    /\ SpecApp
    /\ WF_vars(QueryGetContext)
    /\ WF_vars(QueryRespondStep)

\* ------------------------------------------------- the telemetry reader
\* random.uniform() draws of _read_mock_data(), lines 116 and 119
MockSpeeds == {116, 125}

MockFuels == {451, 452}

\* _read_mock_data(), lines 115-132 (fuel in tenths of a litre)
ReadMockData(speed, fuel, t) ==
    ("_is_mock" :> TRUE) @@
    [speed |-> speed, rpm |-> 6500, gear |-> 4, fuel |-> fuel,
     tire_temperatures |-> [front_left |-> 85, front_right |-> 87,
                            rear_left |-> 82, rear_right |-> 84],
     lap_time |-> 95, best_lap_time |-> 94, current_lap |-> 5,
     position |-> 3, timestamp |-> t]

MockReads(t) == {ReadMockData(sp, f, t) : sp \in MockSpeeds, f \in MockFuels}

\* platform.system() and the presence of pywin32, lines 38 and 52
Platforms == {"Windows", "Windows without pywin32", "Linux"}

\* connect(), lines 33-47 with _connect_windows(): True on Windows with
\* pywin32 only
ConnectResult(platform) == platform = "Windows"

\* a reader that has nothing to give while it is not connected
ReaderRead_NoFallback(connected, mock) ==
    IF ~connected THEN Absent ELSE Present(mock)

\* read(), lines 87-98: _read_mock_data() on both paths; it raises nothing,
\* so the `return None` of line 98 is not reached
ReaderRead(connected, mock) ==
    IF ~connected THEN Present(mock) ELSE Present(mock)

ReaderConnect ==
    /\ \E platform \in Platforms :
          reader_connected' = (reader_connected \/ ConnectResult(platform))
    /\ UNCHANGED <<core, app, speech, ptt, recording>>

\* disconnect(), line 78
ReaderDisconnect ==
    /\ reader_connected' = FALSE
    /\ UNCHANGED <<core, app, speech, ptt, recording>>

\* one read() of the reader; the result is kept as the main loop keeps it
ReaderReadStep ==
    /\ polls < MaxUpdates
    /\ \E mock \in MockReads(now) :
          LET r == ReaderRead(reader_connected, mock)
          IN last_read' = [polled |-> TRUE, present |-> r.present,
                           sample |-> r.sample]
    /\ polls' = polls + 1
    /\ UNCHANGED <<core, model_loaded, q_pc, q_context, asked, answered,
                   q_outcome, polls_in_call, io>>

InitReader == InitProfile("reader")

NextReader ==
    \/ ReaderConnect
    \/ ReaderDisconnect
    \/ ReaderReadStep
    \/ Tick

SpecReader == InitReader /\ [][NextReader]_vars

\* ------------------------------------------------------ the voice handler
\* PushToTalk.__init__, line 26: self.key = key.lower(), key "SPACE"
Lower(name) == IF name = "SPACE" THEN "space" ELSE name

Key == Lower("SPACE")

\* event.name of the keyboard events
KeyNames == {"space", "SPACE", "a"}

\* VoiceHandler.__init__, line 33, with main.py line 62
stt_enabled == TRUE

\* a handler that takes every press event of the key, held or not
PressFires_NoHeldGuard(name) == Lower(name) = Key

\* push_to_talk.py line 48
PressFires(name) == Lower(name) = Key /\ ~is_pressed

\* push_to_talk.py line 55
ReleaseFires(name) == Lower(name) = Key /\ is_pressed

\* threading.Thread.is_alive() of a recording thread
Alive(r) == r.state \in {"loop", "closing"}

\* self.audio_thread, the thread started last
AudioThreadAlive ==
    recorders # <<>> /\ Alive(recorders[Len(recorders)])

\* voice_handler.py lines 96-99: the processing thread of the recording
\* that was just stopped
StartProcessing ==
    IF stt_enabled
    THEN Append(procs, [of |-> Len(recorders), state |-> "started", took |-> 0])
    ELSE procs

\* a press event: _on_key_press with _start_recording (lines 67-78) as
\* its on_press; the keyboard hook thread handles one event at a time
KeyPress(name) ==
    /\ kb_pc = "idle"
    /\ Len(callbacks) < MaxKeyEvents
    /\ IF PressFires(name)
       THEN /\ is_pressed' = TRUE
            /\ callbacks' = Append(callbacks, "on_press")
            /\ IF ~stt_enabled \/ is_recording
               THEN UNCHANGED <<is_recording, recorders>>
               ELSE /\ is_recording' = TRUE
                    /\ recorders' = Append(recorders, [state |-> "loop"])
       ELSE UNCHANGED <<is_pressed, callbacks, is_recording, recorders>>
    /\ UNCHANGED <<core, app, reader_connected, speech, kb_pc, audio_queue,
                   procs>>

KeyPressStep == \E name \in KeyNames : KeyPress(name)

\* a release event: _on_key_release with _stop_recording as its
\* on_release, up to the join of line 91
KeyRelease(name) ==
    /\ kb_pc = "idle"
    /\ Len(callbacks) < MaxKeyEvents
    /\ IF ReleaseFires(name)
       THEN /\ is_pressed' = FALSE
            /\ callbacks' = Append(callbacks, "on_release")
            /\ IF ~is_recording
               THEN UNCHANGED <<is_recording, kb_pc, procs>>
               ELSE /\ is_recording' = FALSE
                    /\ IF AudioThreadAlive
                       THEN kb_pc' = "joining" /\ procs' = procs
                       ELSE kb_pc' = kb_pc /\ procs' = StartProcessing
       ELSE UNCHANGED <<is_pressed, callbacks, is_recording, kb_pc, procs>>
    /\ UNCHANGED <<core, app, reader_connected, speech, recorders,
                   audio_queue>>

KeyReleaseStep == \E name \in KeyNames : KeyRelease(name)

\* lines 91-99: join(timeout=1.0) returns, because the recording thread
\* has ended or because the second has passed, and the processing thread
\* is started in either case
JoinReturns ==
    /\ kb_pc = "joining"
    /\ kb_pc' = "idle"
    /\ procs' = StartProcessing
    /\ UNCHANGED <<core, app, reader_connected, speech, ptt, is_recording,
                   recorders, audio_queue>>

\* _record_audio, lines 123-132: one test of `while self.is_recording`
\* with the chunk that follows it, then the close and the put
RecorderStep(i) ==
    /\ i \in 1..Len(recorders)
    /\ \/ /\ recorders[i].state = "loop"
          /\ ~is_recording
          /\ recorders' = [recorders EXCEPT ![i].state = "closing"]
          /\ audio_queue' = audio_queue
       \/ /\ recorders[i].state = "closing"
          /\ recorders' = [recorders EXCEPT ![i].state = "done"]
          /\ audio_queue' = Append(audio_queue, i)
    /\ UNCHANGED <<core, app, reader_connected, speech, ptt, kb_pc,
                   is_recording, procs>>

\* lines 134-137: pyaudio is missing or the stream raises; the thread ends
\* and puts nothing
RecorderFails(i) ==
    /\ i \in 1..Len(recorders)
    /\ recorders[i].state = "loop"
    /\ recorders' = [recorders EXCEPT ![i].state = "failed"]
    /\ UNCHANGED <<core, app, reader_connected, speech, ptt, kb_pc,
                   is_recording, audio_queue, procs>>

\* _process_audio, lines 142-147: the empty() test, then the get()
ProcStep(j) ==
    /\ j \in 1..Len(procs)
    /\ \/ /\ procs[j].state = "started"
          /\ audio_queue = <<>>
          /\ procs' = [procs EXCEPT ![j].state = "done"]
          /\ audio_queue' = audio_queue
       \/ /\ procs[j].state = "started"
          /\ audio_queue # <<>>
          /\ procs' = [procs EXCEPT ![j].state = "getting"]
          /\ audio_queue' = audio_queue
       \/ /\ procs[j].state = "getting"
          /\ audio_queue # <<>>
          /\ procs' = [procs EXCEPT ![j].state = "done",
                                    ![j].took = Head(audio_queue)]
          /\ audio_queue' = Tail(audio_queue)
    /\ UNCHANGED <<core, app, reader_connected, speech, ptt, kb_pc,
                   is_recording, recorders>>

RecorderSteps == \E i \in 1..Len(recorders) : RecorderStep(i)

RecorderFailure == \E i \in 1..Len(recorders) : RecorderFails(i)

ProcSteps == \E j \in 1..Len(procs) : ProcStep(j)

\* a speak() whose caller gets control back when the playback has ended
Speak_Inline ==
    /\ speak_calls < MaxQueries
    /\ speak_calls' = speak_calls + 1
    /\ spoken' = IF tts_enabled THEN spoken + 1 ELSE spoken
    /\ UNCHANGED <<core, app, reader_connected, tts_enabled, tts_running,
                   ptt, recording>>

\* speak(), lines 285-296, from the call to its return
Speak ==
    /\ speak_calls < MaxQueries
    /\ speak_calls' = speak_calls + 1
    /\ tts_running' = IF tts_enabled THEN tts_running + 1 ELSE tts_running
    /\ UNCHANGED <<core, app, reader_connected, tts_enabled, spoken, ptt,
                   recording>>

\* _speak_in_thread, lines 298-309: synthesis and playback end
TtsFinish ==
    /\ tts_running > 0
    /\ tts_running' = tts_running - 1
    /\ spoken' = spoken + 1
    /\ UNCHANGED <<core, app, reader_connected, tts_enabled, speak_calls,
                   ptt, recording>>

InitVoice ==
    \E tts \in BOOLEAN :
        InitCore("voice") /\ InitOuter(TRUE, NoClient) /\ InitIO(tts)

NextVoice ==
    \/ KeyPressStep
    \/ KeyReleaseStep
    \/ JoinReturns
    \/ RecorderSteps
    \/ RecorderFailure
    \/ ProcSteps
    \/ Speak
    \/ TtsFinish

SpecVoice == InitVoice /\ [][NextVoice]_vars

TypeOK ==
    /\ Len(telemetry_history) <= MaxHistorySize + 1
    /\ calls \in 0..MaxUpdates

\* ===================================================================
\* Properties
\* ===================================================================
Min(a, b) == IF a < b THEN a ELSE b

\* the last min(k, Len(s)) elements of s, oldest first
LastK(s, k) == SubSeq(s, Len(s) - Min(k, Len(s)) + 1, Len(s))

Pushed == Len(ingested)

\* ------------------------------------------------------------------ C1
\* C1 as stated: the history never holds more than history_size samples
\* and, once a sample has been pushed, its last element is the most
\* recently pushed sample.
C1_LatestIsLastPushed ==
    /\ Len(telemetry_history) <= history_size
    /\ Pushed > 0 =>
          /\ Len(telemetry_history) > 0
          /\ telemetry_history[Len(telemetry_history)] = ingested[Pushed]

\* C1 (amended): the history never holds more than history_size samples
\* and, for history_size >= 1, once a sample has been pushed its last
\* element is the most recently pushed sample; with history_size = 0 the
\* history stays empty.
C1_HistoryBounded ==
    /\ Len(telemetry_history) <= history_size
    /\ (Pushed > 0 /\ history_size >= 1) =>
          /\ Len(telemetry_history) > 0
          /\ telemetry_history[Len(telemetry_history)] = ingested[Pushed]
    /\ history_size = 0 => telemetry_history = <<>>

C1_Witness ==
    /\ history_size = 1
    /\ Pushed >= 3
    /\ ingested[Pushed] # ingested[Pushed - 1]
    /\ telemetry_history = <<ingested[Pushed]>>

\* ------------------------------------------------------------------ C2
\* C2: eviction is FIFO: after k pushes the history is the last
\* min(k, history_size) pushed samples, in ingestion order.
C2_FifoEviction ==
    telemetry_history = LastK(ingested, history_size)

C2_Witness ==
    /\ history_size = 2
    /\ Pushed = 4
    /\ ingested[1] # ingested[3]
    /\ ingested[3] # ingested[4]
    /\ telemetry_history = <<ingested[3], ingested[4]>>

\* ------------------------------------------------------------------ C3
HasLap(i) == Has(ingested[i], "current_lap")

\* the sample observed before sample i: the latest earlier one with a lap
PrevObserved(i) ==
    CHOOSE j \in 1..(i - 1) :
        HasLap(j) /\ \A m \in (j + 1)..(i - 1) : ~HasLap(m)

\* the samples at which the lap differs from the previously observed lap
ExpectedTransitions ==
    {<<i, ingested[i]["timestamp"]>> : i \in
        {i \in 1..Pushed :
            /\ HasLap(i)
            /\ \E j \in 1..(i - 1) : HasLap(j)
            /\ ingested[i]["current_lap"]
                 # ingested[PrevObserved(i)]["current_lap"]}}

NoNullLap ==
    \A i \in 1..Pushed : HasLap(i) => ingested[i]["current_lap"] # None

\* C3: when the samples carry lap numbers, current_lap_start_time is set
\* (to the sample's timestamp) exactly at each sample whose current_lap
\* differs from the previously observed lap, once each, and never at the
\* first observation.
C3_LapTransitions ==
    NoNullLap =>
        /\ {transitions[n] : n \in 1..Len(transitions)} = ExpectedTransitions
        /\ Len(transitions) = Cardinality(ExpectedTransitions)
        /\ transitions # <<>> =>
              current_lap_start_time = transitions[Len(transitions)][2]
        /\ transitions = <<>> => current_lap_start_time = None

C3_Witness ==
    /\ Pushed = 4
    /\ \A i \in 1..4 : HasLap(i)
    /\ [i \in 1..4 |-> ingested[i]["current_lap"]] = <<1, 1, 2, 1>>
    /\ [i \in 1..4 |-> ingested[i]["timestamp"]] = <<0, 0, 1, 2>>
    /\ transitions = <<<<3, 1>>, <<4, 2>>>>
    /\ current_lap_start_time = 2

\* ------------------------------------------------------------------ C4
IngestedNow == Len(ingested') = Len(ingested) + 1

\* C4 as stated: an update() whose sample has no current_lap, or a null
\* one, leaves the last seen lap and current_lap_start_time unchanged.
C4_NullLapIsNoOp ==
    [][(/\ IngestedNow
        /\ \/ ~Has(ingested'[Len(ingested')], "current_lap")
           \/ ingested'[Len(ingested')]["current_lap"] = None)
       => /\ last_lap' = last_lap
          /\ current_lap_start_time' = current_lap_start_time]_vars

\* ------------------------------------------------------------------ C5
\* C5: once best_lap_time is set, no step raises it or clears it.
C5_BestLapMonotonic ==
    [][best_lap_time # None =>
          /\ best_lap_time' # None
          /\ best_lap_time' <= best_lap_time]_vars

C5_Witness ==
    /\ Pushed >= 3
    /\ \A i \in 1..3 : Has(ingested[i], "best_lap_time")
    /\ [i \in 1..3 |-> ingested[i]["best_lap_time"]] = <<95, 94, 95>>
    /\ best_lap_time = 94

\* ------------------------------------------------------------------ C6
BestValuesSeen ==
    {ingested[i]["best_lap_time"] : i \in
        {i \in 1..Pushed : /\ Has(ingested[i], "best_lap_time")
                           /\ ingested[i]["best_lap_time"] # None}}

\* C6 as stated: best_lap_time is the minimum of all non-null best-lap
\* values of the ingested samples (0 included), null if there is none.
C6_BestIsMinimum ==
    IF BestValuesSeen = {} THEN best_lap_time = None
    ELSE /\ best_lap_time \in BestValuesSeen
         /\ \A v \in BestValuesSeen : best_lap_time <= v

\* ------------------------------------------------------------------ C7
DeltaKeys == {"speed", "fuel", "rpm"}

HasAnalysis == ctx.called /\ ~ctx.raised /\ Has(ctx.value, "analysis")

TireWindow == LastK(ctx.history, 3)

CompleteTires(t) ==
    Has(t, "tire_temperatures") /\ DOMAIN t["tire_temperatures"] = TireKeys

TireSum(t) == SumValues(t["tire_temperatures"])

ExpectedTrend ==
    LET oldest == TireSum(TireWindow[1])
        newest == TireSum(TireWindow[Len(TireWindow)])
    IN IF newest > oldest THEN "increasing"
       ELSE IF newest < oldest THEN "decreasing"
       ELSE "stable"

\* C8 as stated: with at least two samples stored and tire temperatures
\* in every sample of the tire window, the context reports the trend
\* "increasing", "decreasing" or "stable" by comparing the newest
\* four-tire average of the window with the oldest.
C8_TireTrendReported ==
    (/\ ctx.called
     /\ Len(ctx.history) >= 2
     /\ \A i \in 1..Len(TireWindow) : CompleteTires(TireWindow[i]))
    => /\ HasAnalysis
       /\ Has(ctx.value["analysis"], "tire_temp_trend")
       /\ ctx.value["analysis"]["tire_temp_trend"] = ExpectedTrend

\* ------------------------------------------------------------- C9, C10
FuelWindow == LastK(ctx.history, 5)

FuelInWindow == \A i \in 1..Len(FuelWindow) : Has(FuelWindow[i], "fuel")

Elapsed ==
    FuelWindow[Len(FuelWindow)]["timestamp"] - FuelWindow[1]["timestamp"]

\* C9 as stated: the reported fuel_consumption_rate is the fuel burned
\* between the oldest and the newest sample of the fuel window divided by
\* the time elapsed between them (rate * elapsed = oldest.fuel - newest.fuel).
C9_FuelRatePerSecond ==
    (/\ ctx.called
     /\ Len(ctx.history) >= 2
     /\ FuelInWindow
     /\ Elapsed > 0)
    => /\ HasAnalysis
       /\ Has(ctx.value["analysis"], "fuel_consumption_rate")
       /\ ctx.value["analysis"]["fuel_consumption_rate"] * Elapsed
            = FuelWindow[1]["fuel"] - FuelWindow[Len(FuelWindow)]["fuel"]

\* C10 as stated: when a sample of the fuel window lacks fuel, or the
\* elapsed time over the window is <= 0, the context is returned with an
\* analysis that has no fuel_consumption_rate, and nothing is raised.
C10_FuelRateOmitted ==
    (/\ ctx.called
     /\ Len(ctx.history) >= 1
     /\ (~FuelInWindow \/ Elapsed <= 0))
    => /\ HasAnalysis
       /\ ~Has(ctx.value["analysis"], "fuel_consumption_rate")

\* ----------------------------------------------------------------- C11
\* C11 as stated: when a sample of the tire window has no complete
\* tire_temperatures reading (missing, empty, or lacking a tire key), the
\* context is returned with an analysis that has no tire_temp_trend, and
\* nothing is raised.
C11_TireTrendOmitted ==
    (/\ ctx.called
     /\ Len(ctx.history) >= 1
     /\ \E i \in 1..Len(TireWindow) : ~CompleteTires(TireWindow[i]))
    => /\ HasAnalysis
       /\ ~Has(ctx.value["analysis"], "tire_temp_trend")

\* ----------------------------------------------------------------- C12
\* C12 as stated: in every reachable engine state get_detailed_context()
\* returns without raising, and with a sample stored the context's current
\* sample is the latest stored one and its best_lap_time the tracked best.
C12_ContextNeverRaises ==
    [][ctx' # ctx =>
          /\ ~ctx'.raised
          /\ telemetry_history # <<>> =>
                /\ ctx'.value["current"]
                     = telemetry_history[Len(telemetry_history)]
                /\ ctx'.value["best_lap_time"] = best_lap_time]_vars

\* ----------------------------------------------------------------- C13
\* C13: get_detailed_context() on an engine that holds no sample returns
\* the empty context and does not raise.
C13_EmptyContext ==
    (ctx.called /\ ctx.history = <<>>) =>
        /\ ~ctx.raised
        /\ DOMAIN ctx.value = {}

C13_Witness ==
    /\ ctx.called
    /\ Pushed = 0
    /\ calls > 0
    /\ ~ctx.raised
    /\ DOMAIN ctx.value = {}

Latest(h) == h[Len(h)]

\* C16 as stated: the timestamps of the stored samples strictly increase
\* in ingestion order.
C16_TimestampsIncrease ==
    \A i \in 1..(Len(telemetry_history) - 1) :
        telemetry_history[i]["timestamp"]
          < telemetry_history[i + 1]["timestamp"]

\* C16 (amended): update() does not look at timestamps: a non-empty sample
\* whose timestamp is less than or equal to the latest stored timestamp is
\* appended like any other (the oldest sample leaves when the history is
\* full), so the history is in ingestion order and its timestamps need
\* not increase.
C16_OutOfOrderStored ==
    [][(/\ IngestedNow
        /\ telemetry_history # <<>>
        /\ Latest(ingested')["timestamp"]
             <= Latest(telemetry_history)["timestamp"])
       => telemetry_history'
            = LastK(Append(telemetry_history, Latest(ingested')),
                    history_size)]_vars

C16_Witness ==
    /\ Len(telemetry_history) = 2
    /\ Pushed >= 3
    /\ telemetry_history[1]["timestamp"] > telemetry_history[2]["timestamp"]

C14_NoTornRead ==
    qry_result.done =>
        [raised |-> qry_result.raised, value |-> qry_result.value]
            \in qry_result.allowed

\* ----------------------------------------------------------------- C19
\* C19 as stated: what the caller does to the sample object it passed to
\* update(), nested tire_temperatures mapping included, does not change
\* what the history holds.
C19_StoredSampleIsolated ==
    [][(A_CallerSetsField \/ A_CallerSetsTire)
         => telemetry_history' = telemetry_history]_vars

\* ----------------------------------------------------------------- C20
ReturnedValue(hp) ==
    IF returned_ref = 0 THEN EmptyDict ELSE DerefIn(hp, returned_ref)

\* C20 as stated: changing the returned context does not change the
\* engine's history, and a later update() does not change a context that
\* was already returned.
C20_ContextIsSnapshot ==
    [][/\ A_ConsumerSetsField => telemetry_history' = telemetry_history
       /\ (A_UpdateStep /\ returned_ref # 0)
            => ReturnedValue(heap') = ReturnedValue(heap)]_vars

\* ----------------------------------------------------------------- C21
\* C21: get_detailed_context() and get_context_summary() leave the engine
\* state unchanged: the history, best_lap_time, current_lap_start_time and
\* the last seen lap change only in update() steps.
C21_QueriesLeaveState ==
    [][/\ (GetContext \/ GetContextSummary) => engine' = engine
       /\ engine' # engine => calls' = calls + 1]_vars

C21_Witness ==
    /\ ctx.called
    /\ summary.called
    /\ Len(summary.value) = 3
    /\ Len(telemetry_history) = 2
    /\ ctx.history = telemetry_history
    /\ telemetry_history = LastK(ingested, history_size)
    /\ best_lap_time = 94
    /\ has_last_lap = FALSE

\* ----------------------------------------------------------------- C22
\* the differences, field by field, between the last two samples of h
DeltasOfLastTwo(h) ==
    LET previous == h[Len(h) - 1]
        current == h[Len(h)]
    IN [f \in {f \in DeltaKeys : Has(previous, f) /\ Has(current, f)} |->
           current[f] - previous[f]]

\* C22 as stated: the returned context contains deltas exactly when at
\* least two samples are stored, and they are the differences between the
\* second-most-recent sample (previous) and the most recent one (current).
C22_DeltasWhenTwoStored ==
    ctx.called =>
        /\ Len(ctx.history) >= 2
              <=> (~ctx.raised /\ Has(ctx.value, "deltas"))
        /\ Len(ctx.history) >= 2 =>
              ctx.value["deltas"] = DeltasOfLastTwo(ctx.history)

\* ----------------------------------------------------------------- C23
\* C23 as stated: with two or more samples stored, a sample of the tire
\* window without a complete tire reading does not keep
\* fuel_consumption_rate out of the analysis when the fuel window allows
\* it, and a sample of the fuel window without fuel does not keep
\* tire_temp_trend out of it when the tire window allows it.
C23_MetricsIndependent ==
    (ctx.called /\ Len(ctx.history) >= 2) =>
        /\ (/\ FuelInWindow
            /\ Elapsed > 0
            /\ \E i \in 1..Len(TireWindow) : ~CompleteTires(TireWindow[i]))
           => /\ HasAnalysis
              /\ Has(ctx.value["analysis"], "fuel_consumption_rate")
        /\ (/\ ~FuelInWindow
            /\ \A i \in 1..Len(TireWindow) : CompleteTires(TireWindow[i]))
           => /\ HasAnalysis
              /\ Has(ctx.value["analysis"], "tire_temp_trend")

\* ----------------------------------------------------------------- C24
\* the two metrics computed from the windows alone
AnalysisOfWindows(h) ==
    TireTrend(LastK(h, 3)).value @@ FuelRate(LastK(h, 5))

\* C24 as stated: the analysis of a returned context is what the last
\* min(3, size) samples give for the tire trend and the last min(5, size)
\* samples give for the fuel rate, and with fewer than two samples stored
\* it holds neither metric.
C24_WindowsOnly ==
    (ctx.called /\ Len(ctx.history) >= 1) =>
        /\ HasAnalysis
        /\ Len(ctx.history) < 2 => DOMAIN ctx.value["analysis"] = {}
        /\ Len(ctx.history) >= 2 =>
              ctx.value["analysis"] = AnalysisOfWindows(ctx.history)

\* ----------------------------------------------------------------- C25
\* three samples ingested and stored: increasing timestamps, identical
\* complete tire temperatures, decreasing fuel
EndToEndScenario ==
    /\ Pushed = 3
    /\ ctx.history = ingested
    /\ \A i \in 1..3 : CompleteTires(ingested[i]) /\ Has(ingested[i], "fuel")
    /\ \A i \in 1..2 :
          /\ ingested[i]["timestamp"] < ingested[i + 1]["timestamp"]
          /\ ingested[i]["tire_temperatures"]
               = ingested[i + 1]["tire_temperatures"]
          /\ ingested[i]["fuel"] > ingested[i + 1]["fuel"]

\* C25 as stated: after those three samples get_detailed_context() reports
\* a stable tire trend, a positive fuel_consumption_rate, and deltas equal
\* to the differences between the last two samples.
C25_EndToEnd ==
    (ctx.called /\ EndToEndScenario) =>
        /\ HasAnalysis
        /\ Has(ctx.value["analysis"], "tire_temp_trend")
        /\ ctx.value["analysis"]["tire_temp_trend"] = "stable"
        /\ Has(ctx.value["analysis"], "fuel_consumption_rate")
        /\ ctx.value["analysis"]["fuel_consumption_rate"] > 0
        /\ Has(ctx.value, "deltas")
        /\ ctx.value["deltas"] = DeltasOfLastTwo(ctx.history)

\* ----------------------------------------------------------------- C28
\* C28 as stated: when the backend is unavailable or its generate call
\* fails, generate_response returns a fallback message and does not
\* raise, for any query and any context.
C28_FallbackNeverRaises ==
    (/\ ai.client # "none"
     /\ ai.response.called
     /\ ai.backend \in {"unavailable", "fails"})
    => /\ ~ai.response.raised
       /\ ai.response.value \in Fallbacks

\* ----------------------------------------------------------------- C29
\* C29: a prompt that is built holds a data section exactly when the
\* context has a current sample; for the empty context it is the system
\* prompt and the query, nothing else.
C29_DataSectionIffCurrent ==
    (ai.client # "none" /\ ai.prompt.called /\ ~ai.prompt.raised) =>
        /\ Len(ai.prompt.value.data) = 1 <=> Has(ai.context, "current")
        /\ Len(ai.prompt.value.data) \in {0, 1}
        /\ DOMAIN ai.context = {} =>
              ai.prompt.value
                = [system |-> ai.client, data |-> <<>>, query |-> ai.query]

C29_Witness ==
    /\ ai.client = "gpt4all"
    /\ ai.prompt.called
    /\ ~ai.prompt.raised
    /\ DOMAIN ai.context = {}
    /\ ai.prompt.value.data = <<>>
    /\ ai.prompt.value.query = "fuel?"

\* ----------------------------------------------------------------- C26
\* C26: while a query's generate_response() call is in progress the main
\* loop can make its next poll, and with it its next update(): nothing
\* the query thread holds keeps it waiting.
C26_IngestionNotBlocked ==
    (q_pc = "generate" /\ polls < MaxUpdates) =>
        /\ ENABLED UpdateTelemetryStep
        /\ \A sample \in AppSamples : ENABLED UpdateTelemetry(Present(sample))

C26_Witness ==
    /\ q_pc = "generate"
    /\ polls_in_call = 1
    /\ Has(q_context, "history_size")
    /\ q_context["history_size"] = 1
    /\ Len(telemetry_history) = 2
    /\ last_read.present

\* ----------------------------------------------------------------- C27
\* C27 as stated: every non-empty query eventually gets a response for
\* the driver, the model's answer or a fallback message, whatever the
\* history holds and whatever the backend does.
C27_QueryAnswered ==
    \A n \in 1..MaxQueries : (asked >= n) ~> (answered >= n)

\* ----------------------------------------------------------------- C30
\* C30: a poll whose read() returned None calls no update() and leaves
\* the history and the session state as they were; a poll that got a
\* sample, after such a poll as well, ingests it.
C30_AbsentTickSkipped ==
    [][/\ UpdateTelemetry(Absent) =>
             /\ calls' = calls
             /\ engine' = engine
       /\ \A sample \in AppSamples :
             /\ polls < MaxUpdates => ENABLED UpdateTelemetry(Present(sample))
             /\ UpdateTelemetry(Present(sample)) =>
                   /\ calls' = calls + 1
                   /\ telemetry_history'
                        = LastK(Append(telemetry_history, Stamp(sample, now)),
                                history_size)]_vars

C30_Witness ==
    /\ polls = 3
    /\ calls = 2
    /\ last_read.present
    /\ last_read.sample = [speed |-> 20]
    /\ Len(telemetry_history) = 2
    /\ telemetry_history[1]["speed"] = 10
    /\ telemetry_history[2]["speed"] = 20

\* ----------------------------------------------------------------- C32
Lbl(cond, label) == IF cond THEN <<label>> ELSE <<>>

\* a field counts as present when the sample has it with a value
PresentIn(current, f) == Has(current, f) /\ current[f] # None

\* the parts the summary of `current` is to hold, in order
ExpectedLabels(current, best) ==
    Lbl(PresentIn(current, "speed"), "Speed")
    \o Lbl(PresentIn(current, "gear"), "Gear")
    \o Lbl(PresentIn(current, "rpm"), "RPM")
    \o Lbl(PresentIn(current, "lap_time"), "Current lap time")
    \o Lbl(best # None, "Best lap time")
    \o Lbl(best # None /\ PresentIn(current, "lap_time"), "Delta")
    \o Lbl(PresentIn(current, "fuel"), "Fuel")
    \o Lbl(PresentIn(current, "tire_temperatures"), "Avg tire temp")
    \o Lbl(PresentIn(current, "position"), "Position")

RenderedLabels ==
    [i \in 1..Len(summary.value) |->
        IF summary.value[i].label = "Delta: +" THEN "Delta"
        ELSE summary.value[i].label]

\* C32 as stated: get_context_summary() returns the no-data line for an
\* empty history; otherwise it renders, in the fixed order, exactly the
\* parts whose field the latest sample or the session state has, and it
\* does not raise on a partial sample.
C32_SummaryRendered ==
    summary.called =>
        /\ ~summary.raised
        /\ IF summary.history = <<>> THEN summary.value = NoDataLine
           ELSE RenderedLabels
                  = ExpectedLabels(Latest(summary.history), summary.best)

\* ----------------------------------------------------------------- C37
\* C37: update() with an empty sample can always be called and changes
\* nothing: the history, best_lap_time, current_lap_start_time and the
\* last observed lap stay as they were, and the history never holds a
\* sample made of a timestamp only.
C37_EmptySampleDropped ==
    [][/\ calls < MaxUpdates => ENABLED Update(EmptyDict)
       /\ Update(EmptyDict) => engine' = engine
       /\ \A i \in 1..Len(telemetry_history') :
             DOMAIN telemetry_history'[i] # {"timestamp"}]_vars

C37_Witness ==
    /\ calls = Pushed + 1
    /\ Pushed = 2
    /\ Len(telemetry_history) = 2
    /\ current_lap_start_time # None
    /\ last_lap = 2

\* ----------------------------------------------------------------- C38
\* the latest ingested sample that carried a current_lap field
LastLapSample ==
    CHOOSE i \in 1..Pushed : HasLap(i) /\ \A j \in (i + 1)..Pushed : ~HasLap(j)

\* C38: current_lap_start_time is null or the timestamp of an ingested
\* sample whose current_lap differed from the lap observed before it, and
\* the last observed lap is the current_lap of the latest ingested sample
\* that carried one, whether or not those samples are still stored.
C38_LapStateFromIngested ==
    /\ \/ current_lap_start_time = None
       \/ \E t \in ExpectedTransitions : t[2] = current_lap_start_time
    /\ IF \E i \in 1..Pushed : HasLap(i)
       THEN /\ has_last_lap
            /\ last_lap = ingested[LastLapSample]["current_lap"]
       ELSE ~has_last_lap

C38_Witness ==
    /\ history_size = 1
    /\ Pushed = 3
    /\ HasLap(1) /\ ingested[1]["current_lap"] = 1
    /\ HasLap(2) /\ ingested[2]["current_lap"] = 2
    /\ ~HasLap(3)
    /\ telemetry_history = <<ingested[3]>>
    /\ ingested[2]["timestamp"] = 1
    /\ ingested[3]["timestamp"] = 2
    /\ current_lap_start_time = 1
    /\ last_lap = 2

\* ----------------------------------------------------------------- C33
\* C33: every read() returns a sample, never absent, whether or not
\* connect() succeeded, and every sample from the fallback generator
\* carries the synthetic flag set to true.
C33_MockFlagged ==
    /\ \A t \in 0..MaxTime : \A m \in MockReads(t) :
          Has(m, "_is_mock") /\ m["_is_mock"] = TRUE
    /\ last_read.polled =>
          /\ last_read.present
          /\ Has(last_read.sample, "_is_mock")
          /\ last_read.sample["_is_mock"] = TRUE

C33_Witness ==
    /\ ~reader_connected
    /\ polls >= 2
    /\ now > 0
    /\ last_read.polled /\ last_read.present
    /\ last_read.sample["timestamp"] = now

\* ----------------------------------------------------------------- C36
\* C36: on_press and on_release are invoked in strict alternation,
\* starting with on_press; a press event while the key is held and a
\* release event while it is not held invoke nothing.
C36_StrictAlternation ==
    [][/\ \A i \in 1..Len(callbacks') :
             callbacks'[i] = IF i % 2 = 1 THEN "on_press" ELSE "on_release"
       /\ \A name \in KeyNames :
             /\ KeyPress(name) /\ is_pressed => callbacks' = callbacks
             /\ KeyRelease(name) /\ ~is_pressed => callbacks' = callbacks]_vars

C36_Witness ==
    /\ callbacks = <<"on_press", "on_release", "on_press">>
    /\ is_pressed
    /\ ENABLED KeyPress("space")

\* ----------------------------------------------------------------- C34
\* C34 as stated: at most one recording thread is running at any time,
\* for every interleaving of press and release events.
C34_OneRecordingThread ==
    Cardinality({i \in 1..Len(recorders) : Alive(recorders[i])}) <= 1

\* ----------------------------------------------------------------- C35
\* C35 as stated: a processing thread that has finished has taken the
\* buffer of the recording it was started for: it did not find the queue
\* empty unless that recording put nothing, and it did not take the
\* buffer of another recording.
C35_OwnBufferTaken ==
    \A j \in 1..Len(procs) :
        procs[j].state = "done" =>
            /\ procs[j].took \in {0, procs[j].of}
            /\ procs[j].took = 0 => recorders[procs[j].of].state = "failed"

\* ----------------------------------------------------------------- C31
\* C31: speak() returns without waiting for synthesis or playback: the
\* call ends with nothing more spoken than before, the work being left
\* to one more running thread; with TTS disabled it starts nothing; and
\* it can be called while earlier speech is still being played.
C31_SpeakFireAndForget ==
    [][/\ speak_calls < MaxQueries => ENABLED Speak
       /\ Speak =>
             /\ spoken' = spoken
             /\ tts_enabled => tts_running' = tts_running + 1
             /\ ~tts_enabled => tts_running' = tts_running]_vars

C31_Witness ==
    /\ tts_enabled
    /\ speak_calls = 2
    /\ tts_running = 2
    /\ spoken = 0

====
